---- MODULE Spec2Model ----
(***************************************************************************)
(* Flash-sale purchase service: the sale coordinator (FlashSaleService),   *)
(* the inventory module (InventoryService), the purchase ledger            *)
(* (PurchaseService) and the Lua scripts they run at the atomic store.     *)
(*                                                                         *)
(* Representation.  The atomic store holds strings; a string is modelled   *)
(* as a sequence: a user id is its sequence of characters, the decimal     *)
(* string of the integer n is <<n>>, the ISO-8601 string of the instant t  *)
(* is <<t>>, and a nil / undefined value is the empty sequence.            *)
(***************************************************************************)
EXTENDS Integers, Sequences, FiniteSets, Bags, TLC

\* ---------------------------------------------------------------- bounds
NumCalls == 3          \* calls made in one run
MaxTime == 3           \* the clock runs over 0..MaxTime
StartTime == 1         \* config.sale.startTime
TotalStock == 2        \* config.sale.totalStock
EndTime == MaxTime - 1 \* config.sale.endTime
LiveCalls == 2         \* calls followed to their end under fairness


\* -------------------------------------------------------------- user ids
Undefined == <<"undefined">>      \* an absent user id (undefined / null)
Nil == << >>                      \* nil, undefined, or the empty string

RawUserIds ==
    { <<"a">>, <<"A">>, <<" ", "a", " ">>, <<"b">>, <<"c">>,
      << >>, <<" ">>, Undefined }

IsSpace(ch) == ch = " "

ToLowerChar(ch) ==
    CASE ch = "A" -> "a"
      [] ch = "B" -> "b"
      [] ch = "C" -> "c"
      [] OTHER -> ch

RECURSIVE TrimStart(_)
TrimStart(s) ==
    IF s # << >> /\ IsSpace(Head(s)) THEN TrimStart(Tail(s)) ELSE s

RECURSIVE TrimEnd(_)
TrimEnd(s) ==
    IF s # << >> /\ IsSpace(s[Len(s)])
    THEN TrimEnd(SubSeq(s, 1, Len(s) - 1))
    ELSE s

\* String.prototype.trim
Trim(s) == TrimEnd(TrimStart(s))

\* String.prototype.toLowerCase
ToLowerCase(s) == [i \in DOMAIN s |-> ToLowerChar(s[i])]

\* A faulty validation: the id is not trimmed before its length is taken.
IsInvalidUserIdNoTrim(userId) ==
    \/ userId = Nil
    \/ userId = Undefined

\* attemptPurchase: !userId || typeof userId !== 'string' || trim().length === 0
IsInvalidUserId(userId) ==
    \/ userId = Nil
    \/ userId = Undefined
    \/ Len(Trim(userId)) = 0

\* A faulty normalization: the id is trimmed and not lower-cased.
NormalizeUserIdNoLowerCase(userId) == Trim(userId)

\* attemptPurchase: userId.trim().toLowerCase()
NormalizeUserId(userId) == ToLowerCase(Trim(userId))

UserIds == { NormalizeUserId(r) : r \in { x \in RawUserIds : ~IsInvalidUserId(x) } }

\* ------------------------------------------------- strings kept at the store
NumberToString(n) == <<n>>    \* Number.prototype.toString, Redis integer encoding
ToNumber(s) == s[1]           \* Lua tonumber / parseInt(s, 10)
ToISOString(t) == <<t>>       \* Date.prototype.toISOString
ParseDate(s) == s[1]          \* new Date(isoString)

EmptyHash == [u \in {} |-> Nil]

\* HGET key field: the stored string, or nil
HGet(hash, field) == IF field \in DOMAIN hash THEN hash[field] ELSE Nil

\* HSET key field value
HSet(hash, field, value) ==
    [u \in DOMAIN hash \cup {field} |-> IF u = field THEN value ELSE hash[u]]

\* A faulty HSETNX that overwrites an existing field.
HSetNXOverwrites(hash, field, value) ==
    [result |-> IF field \in DOMAIN hash THEN 0 ELSE 1,
     hash |-> HSet(hash, field, value)]

\* HSETNX key field value: 1 and the field set if it was absent, else 0
HSetNX(hash, field, value) ==
    IF field \in DOMAIN hash
    THEN [result |-> 0, hash |-> hash]
    ELSE [result |-> 1, hash |-> HSet(hash, field, value)]

\* ------------------------------------------------------------ Lua scripts
\* A script's reply {a, b} is the record [status |-> a, ...]: b is the
\* field remaining when it is a number and the field existing when it is a
\* timestamp string.  The record also carries the store's keys as the
\* script leaves them.

\* GET key, as Lua's tonumber sees it: nil stays nil
StockExists(stockKey) == stockKey # Nil

\* DECR key
Decr(stockKey) == NumberToString(ToNumber(stockKey) - 1)

\* Faulty variants of the purchase script, used to test the properties below.
\* The stock check is missing.
PurchaseScriptNoStockCheck(stockKey, purchases, userId, timestamp) ==
    LET existingPurchase == HGet(purchases, userId) IN
    IF existingPurchase # Nil
    THEN [status |-> 0, remaining |-> 0, existing |-> existingPurchase,
          stock |-> stockKey, purchases |-> purchases]
    ELSE IF ~StockExists(stockKey)
    THEN [status |-> 2, remaining |-> 0, existing |-> Nil,
          stock |-> stockKey, purchases |-> purchases]
    ELSE [status |-> 1, remaining |-> ToNumber(Decr(stockKey)), existing |-> Nil,
          stock |-> Decr(stockKey),
          purchases |-> HSet(purchases, userId, timestamp)]

\* The DECR is missing.
PurchaseScriptNoDecr(stockKey, purchases, userId, timestamp) ==
    LET existingPurchase == HGet(purchases, userId) IN
    IF existingPurchase # Nil
    THEN [status |-> 0, remaining |-> 0, existing |-> existingPurchase,
          stock |-> stockKey, purchases |-> purchases]
    ELSE IF ~StockExists(stockKey) \/ ToNumber(stockKey) <= 0
    THEN [status |-> 2, remaining |-> 0, existing |-> Nil,
          stock |-> stockKey, purchases |-> purchases]
    ELSE [status |-> 1, remaining |-> ToNumber(stockKey), existing |-> Nil,
          stock |-> stockKey,
          purchases |-> HSet(purchases, userId, timestamp)]

\* The duplicate check is missing.
PurchaseScriptNoDuplicateCheck(stockKey, purchases, userId, timestamp) ==
    IF ~StockExists(stockKey) \/ ToNumber(stockKey) <= 0
    THEN [status |-> 2, remaining |-> 0, existing |-> Nil,
          stock |-> stockKey, purchases |-> purchases]
    ELSE [status |-> 1, remaining |-> ToNumber(Decr(stockKey)), existing |-> Nil,
          stock |-> Decr(stockKey),
          purchases |-> HSet(purchases, userId, timestamp)]

\* The stock check is stock < 0 instead of stock <= 0.
PurchaseScriptOffByOne(stockKey, purchases, userId, timestamp) ==
    LET existingPurchase == HGet(purchases, userId) IN
    IF existingPurchase # Nil
    THEN [status |-> 0, remaining |-> 0, existing |-> existingPurchase,
          stock |-> stockKey, purchases |-> purchases]
    ELSE IF ~StockExists(stockKey) \/ ToNumber(stockKey) < 0
    THEN [status |-> 2, remaining |-> 0, existing |-> Nil,
          stock |-> stockKey, purchases |-> purchases]
    ELSE [status |-> 1, remaining |-> ToNumber(Decr(stockKey)), existing |-> Nil,
          stock |-> Decr(stockKey),
          purchases |-> HSet(purchases, userId, timestamp)]

\* The HSET is missing.
PurchaseScriptNoRecord(stockKey, purchases, userId, timestamp) ==
    LET existingPurchase == HGet(purchases, userId) IN
    IF existingPurchase # Nil
    THEN [status |-> 0, remaining |-> 0, existing |-> existingPurchase,
          stock |-> stockKey, purchases |-> purchases]
    ELSE IF ~StockExists(stockKey) \/ ToNumber(stockKey) <= 0
    THEN [status |-> 2, remaining |-> 0, existing |-> Nil,
          stock |-> stockKey, purchases |-> purchases]
    ELSE [status |-> 1, remaining |-> ToNumber(Decr(stockKey)), existing |-> Nil,
          stock |-> Decr(stockKey), purchases |-> purchases]

\* The stock check comes before the duplicate check.
PurchaseScriptStockCheckFirst(stockKey, purchases, userId, timestamp) ==
    LET existingPurchase == HGet(purchases, userId) IN
    IF ~StockExists(stockKey) \/ ToNumber(stockKey) <= 0
    THEN [status |-> 2, remaining |-> 0, existing |-> Nil,
          stock |-> stockKey, purchases |-> purchases]
    ELSE IF existingPurchase # Nil
    THEN [status |-> 0, remaining |-> 0, existing |-> existingPurchase,
          stock |-> stockKey, purchases |-> purchases]
    ELSE [status |-> 1, remaining |-> ToNumber(Decr(stockKey)), existing |-> Nil,
          stock |-> Decr(stockKey),
          purchases |-> HSet(purchases, userId, timestamp)]

\* The DECR comes before the stock check (DECR of an absent key leaves -1).
PurchaseScriptDecrFirst(stockKey, purchases, userId, timestamp) ==
    LET existingPurchase == HGet(purchases, userId)
        decremented == IF StockExists(stockKey) THEN Decr(stockKey)
                       ELSE NumberToString(-1)
    IN
    IF existingPurchase # Nil
    THEN [status |-> 0, remaining |-> 0, existing |-> existingPurchase,
          stock |-> stockKey, purchases |-> purchases]
    ELSE IF ToNumber(decremented) < 0
    THEN [status |-> 2, remaining |-> 0, existing |-> Nil,
          stock |-> decremented, purchases |-> purchases]
    ELSE [status |-> 1, remaining |-> ToNumber(decremented), existing |-> Nil,
          stock |-> decremented,
          purchases |-> HSet(purchases, userId, timestamp)]

\* ATOMIC_PURCHASE_SCRIPT: KEYS[1] stock, KEYS[2] purchases, ARGV[1] user
\* id, ARGV[2] timestamp
AtomicPurchaseScript(stockKey, purchases, userId, timestamp) ==
    LET existingPurchase == HGet(purchases, userId) IN
    IF existingPurchase # Nil
    THEN [status |-> 0, remaining |-> 0, existing |-> existingPurchase,
          stock |-> stockKey, purchases |-> purchases]
    ELSE IF ~StockExists(stockKey) \/ ToNumber(stockKey) <= 0
    THEN [status |-> 2, remaining |-> 0, existing |-> Nil,
          stock |-> stockKey, purchases |-> purchases]
    ELSE [status |-> 1, remaining |-> ToNumber(Decr(stockKey)), existing |-> Nil,
          stock |-> Decr(stockKey),
          purchases |-> HSet(purchases, userId, timestamp)]

\* A faulty decrement script: the stock > 0 check is missing.
DecrementStockScriptNoCheck(stockKey) ==
    IF ~StockExists(stockKey)
    THEN [status |-> 0, remaining |-> -1, stock |-> stockKey]
    ELSE [status |-> 1, remaining |-> ToNumber(Decr(stockKey)),
          stock |-> Decr(stockKey)]

\* DECREMENT_STOCK_SCRIPT: KEYS[1] stock
DecrementStockScript(stockKey) ==
    IF ~StockExists(stockKey)
    THEN [status |-> 0, remaining |-> -1, stock |-> stockKey]
    ELSE IF ToNumber(stockKey) > 0
    THEN [status |-> 1, remaining |-> ToNumber(Decr(stockKey)),
          stock |-> Decr(stockKey)]
    ELSE [status |-> 0, remaining |-> 0, stock |-> stockKey]

\* A faulty init script: the EXISTS check is missing.
InitStockScriptOverwrites(stockKey, initial) ==
    [status |-> 1, stock |-> initial]

\* INIT_STOCK_SCRIPT: KEYS[1] stock, ARGV[1] initial stock value
InitStockScript(stockKey, initial) ==
    IF ~StockExists(stockKey)
    THEN [status |-> 1, stock |-> initial]
    ELSE [status |-> 0, stock |-> stockKey]

\* --------------------------------------------------------- sale coordinator
\* Faulty variants of getSaleStatus: the window is never closed; the upper
\* bound is exclusive.
GetSaleStatusNoGate(now) == "active"

GetSaleStatusExclusiveEnd(now) ==
    IF now < StartTime THEN "upcoming"
    ELSE IF now >= StartTime /\ now < EndTime THEN "active"
    ELSE "ended"

\* A faulty getSaleStatus with the two outer results exchanged.
GetSaleStatusExchanged(now) ==
    IF now < StartTime THEN "ended"
    ELSE IF now >= StartTime /\ now <= EndTime THEN "active"
    ELSE "upcoming"

\* FlashSaleService.getSaleStatus at the instant now
GetSaleStatus(now) ==
    IF now < StartTime THEN "upcoming"
    ELSE IF now >= StartTime /\ now <= EndTime THEN "active"
    ELSE "ended"

\* A call's result.  reason is "success", one of the four failure reasons,
\* or "error" for a thrown exception; the other operations use "ok"/"failed".
Result(reason, message, purchasedAt, remaining) ==
    [reason |-> reason, message |-> message, purchasedAt |-> purchasedAt,
     remaining |-> remaining]

NoResult == Result("none", "none", Nil, 0)

\* A faulty switch without the default: an unknown code is taken as 2.
PurchaseResponseNoDefault(statusCode, now) ==
    CASE statusCode = 0 -> Result("already_purchased", "already", Nil, 0)
      [] statusCode = 1 -> Result("success", "congratulations", ToISOString(now), 0)
      [] OTHER -> Result("out_of_stock", "sold_out", Nil, 0)

\* attemptPurchase: the switch on result[0]; now is the Date taken before eval
PurchaseResponse(statusCode, now) ==
    CASE statusCode = 0 -> Result("already_purchased", "already", Nil, 0)
      [] statusCode = 1 -> Result("success", "congratulations", ToISOString(now), 0)
      [] statusCode = 2 -> Result("out_of_stock", "sold_out", Nil, 0)
      [] OTHER -> Result("error", "unexpected_status", Nil, 0)

\* PurchaseService.hasPurchased: HGET, then new Date(purchaseTime)
HasPurchased(hash, userId) ==
    LET purchaseTime == HGet(hash, userId) IN
    IF purchaseTime # Nil
    THEN Result("purchased", "none", ToISOString(ParseDate(purchaseTime)), 0)
    ELSE Result("not_purchased", "none", Nil, 0)

\* FlashSaleService.getUserPurchaseStatus: !userId || typeof userId !==
\* 'string' answers false without the store; the id is normalized otherwise.
GetUserStatus(hash, userId) ==
    IF userId = Nil \/ userId = Undefined
    THEN Result("not_purchased", "none", Nil, 0)
    ELSE HasPurchased(hash, NormalizeUserId(userId))

\* -------------------------------------------------------------------- state
VARIABLES
    stock,        \* the string at key flash-sale:stock, Nil when the key is absent
    purchases,    \* the hash at key flash-sale:purchases: user id -> ISO timestamp
    initialized,  \* InventoryService.initialized of the running process
    clock,        \* the wall clock (new Date())
    calls         \* the bag of the calls made: what each is, where it stands, its result

vars == <<stock, purchases, initialized, clock, calls>>

NoReply == [status |-> -1, remaining |-> 0, existing |-> Nil]

\* A call as it is made.  pc is where it stands: at a suspension point
\* ("eval", "reply", "clearPurchases", "hsetnx", "hget") or "done".  prior
\* and mark are history: prior is the purchasedAt of a success already
\* returned to the same user when the call was made; mark is set on a
\* purchase whose ledger entry a reset has cleared, and on a reset when
\* another call changes the counter between its two writes.  runs counts
\* the executions of the call's script at the store and committed tells
\* that one of them inserted the ledger entry.
NewCall(op) ==
    [op |-> op, pc |-> "done", userId |-> Nil, now |-> 0,
     reply |-> NoReply, result |-> NoResult, prior |-> Nil, mark |-> FALSE,
     runs |-> 0, committed |-> FALSE]

RECURSIVE SumCopies(_, _)
SumCopies(S, B) ==
    IF S = {} THEN 0
    ELSE LET r == CHOOSE x \in S : TRUE
         IN CopiesIn(r, B) + SumCopies(S \ {r}, B)

\* The bag B with one copy of r replaced by r2, with r added, and with F
\* applied to every call.
Replaced(B, r, r2) == (B (-) SetToBag({r})) (+) SetToBag({r2})
Added(B, r) == B (+) SetToBag({r})
Mapped(f, B) ==
    LET S == BagToSet(B)
    IN [x \in { f[r] : r \in S } |-> SumCopies({ r \in S : f[r] = x }, B)]

Pending == BagToSet(calls)

CanStart == BagCardinality(calls) < NumCalls

Quiescent == \A r \in Pending : r.pc = "done"

\* The purchasedAt of a success already returned to userId, Nil if none.
PriorSuccess(userId) ==
    LET S == { r \in Pending : /\ r.op = "attemptPurchase"
                               /\ r.pc = "done"
                               /\ r.userId = userId
                               /\ r.result.reason = "success"
                               /\ ~r.mark }
    IN IF S = {} THEN Nil ELSE (CHOOSE r \in S : TRUE).result.purchasedAt

\* Another call changes the counter while a reset is between its two writes.
CutReset(r) ==
    IF r.op = "reset" /\ r.pc = "clearPurchases" THEN [r EXCEPT !.mark = TRUE] ELSE r

CutResets(B, changed) ==
    IF changed THEN Mapped([r \in BagToSet(B) |-> CutReset(r)], B) ELSE B

\* A reset clears the ledger entry of a purchase that had committed.
ClearCommitted(r) ==
    IF r.op = "attemptPurchase" /\ r.committed
    THEN [r EXCEPT !.mark = TRUE] ELSE r

\* A fresh store and a process that has not initialized.
InitFresh ==
    /\ stock = Nil
    /\ purchases = EmptyHash
    /\ initialized = FALSE
    /\ clock = 0
    /\ calls = EmptyBag

\* An initialized sale, as start() leaves a fresh store before it listens:
\* counter = totalStock, empty ledger.
InitSale ==
    /\ stock = NumberToString(TotalStock)
    /\ purchases = EmptyHash
    /\ initialized = TRUE
    /\ clock = 0
    /\ calls = EmptyBag

\* An initialized sale configured with totalStock = 0.
InitZeroStock ==
    /\ stock = NumberToString(0)
    /\ purchases = EmptyHash
    /\ initialized = TRUE
    /\ clock = 0
    /\ calls = EmptyBag

\* The services are callable before and after start() has initialized.
Init == InitFresh \/ InitSale

\* The wall clock advances.
Tick ==
    /\ clock < MaxTime
    /\ clock' = clock + 1
    /\ UNCHANGED <<stock, purchases, initialized, calls>>

\* ------------------------------------------ FlashSaleService.attemptPurchase
\* Up to the suspension on redis.eval: validation, the window gate, now.
AttemptPurchase(userId) ==
    /\ CanStart
    /\ LET status == GetSaleStatus(clock)
           normalizedUserId == NormalizeUserId(userId)
           call == NewCall("attemptPurchase")
       IN calls' = Added(calls,
            IF IsInvalidUserId(userId)
            THEN [call EXCEPT !.result = Result("invalid_user_id", "invalid", Nil, 0)]
            ELSE IF status # "active"
            THEN [call EXCEPT !.userId = normalizedUserId,
                    !.prior = PriorSuccess(normalizedUserId),
                    !.result = Result("sale_not_active", status, Nil, 0)]
            ELSE [call EXCEPT !.pc = "eval", !.userId = normalizedUserId,
                    !.prior = PriorSuccess(normalizedUserId),
                    !.now = clock])
    /\ UNCHANGED <<stock, purchases, initialized, clock>>

\* A faulty arrangement in which a call holds the store from its script to
\* its return: no script runs while another call's reply is outstanding.
PurchaseScriptUnderLock(r) ==
    /\ r.op = "attemptPurchase"
    /\ r.pc = "eval"
    /\ \A q \in Pending : q.pc # "reply"
    /\ LET s == AtomicPurchaseScript(stock, purchases, r.userId, ToISOString(r.now))
           replied == [r EXCEPT !.pc = "reply",
                         !.reply = [status |-> s.status, remaining |-> s.remaining,
                                    existing |-> s.existing],
                         !.runs = r.runs + 1,
                         !.committed = r.committed \/ s.status = 1,
                         !.mark = r.mark /\ s.status # 1]
       IN /\ stock' = s.stock
          /\ purchases' = s.purchases
          /\ calls' = CutResets(Replaced(calls, r, replied), s.stock # stock)
    /\ UNCHANGED <<initialized, clock>>

\* The atomic store runs ATOMIC_PURCHASE_SCRIPT for the call r, in one step.
PurchaseScript(r) ==
    /\ r.op = "attemptPurchase"
    /\ r.pc = "eval"
    /\ LET s == AtomicPurchaseScript(stock, purchases, r.userId, ToISOString(r.now))
           replied == [r EXCEPT !.pc = "reply",
                         !.reply = [status |-> s.status, remaining |-> s.remaining,
                                    existing |-> s.existing],
                         !.runs = r.runs + 1,
                         !.committed = r.committed \/ s.status = 1,
                         !.mark = r.mark /\ s.status # 1]
       IN /\ stock' = s.stock
          /\ purchases' = s.purchases
          /\ calls' = CutResets(Replaced(calls, r, replied), s.stock # stock)
    /\ UNCHANGED <<initialized, clock>>

\* The reply reaches the process: the switch on the status code.
AttemptReturn(r) ==
    /\ r.op = "attemptPurchase"
    /\ r.pc = "reply"
    /\ calls' = Replaced(calls, r,
            [r EXCEPT !.pc = "done", !.now = 0,
                !.result = PurchaseResponse(r.reply.status, r.now),
                !.reply = [NoReply EXCEPT !.status = r.reply.status]])
    /\ UNCHANGED <<stock, purchases, initialized, clock>>

\* ------------------------------------------------ InventoryService, process
\* A new process: the InventoryService singleton is constructed anew, the
\* store keeps its keys.
Restart ==
    /\ Quiescent
    /\ initialized
    /\ initialized' = FALSE
    /\ UNCHANGED <<stock, purchases, clock, calls>>

\* FlashSaleService.initialize -> InventoryService.initialize.  The result
\* notes what the call did and the counter it left (-1: no key).
Initialize ==
    /\ CanStart
    /\ LET s == InitStockScript(stock, NumberToString(TotalStock))
           left == IF initialized THEN stock ELSE s.stock
       IN /\ stock' = left
          /\ initialized' = TRUE
          /\ calls' = Added(calls,
                [NewCall("initialize") EXCEPT !.result =
                    Result("ok",
                        IF initialized THEN "flag_set"
                        ELSE IF s.status = 1 THEN "script_1" ELSE "script_0",
                        Nil,
                        IF StockExists(left) THEN ToNumber(left) ELSE -1)])
    /\ UNCHANGED <<purchases, clock>>

\* InventoryService.decrementStock
DecrementStock ==
    /\ CanStart
    /\ LET s == DecrementStockScript(stock)
       IN /\ stock' = s.stock
          /\ calls' = CutResets(
                Added(calls,
                    [NewCall("decrementStock") EXCEPT !.result =
                        Result(IF s.status = 1 THEN "ok" ELSE "failed",
                               "none", Nil, s.remaining)]),
                s.stock # stock)
    /\ UNCHANGED <<purchases, initialized, clock>>

\* The values setStock is called with.
SetStockValues == {0, TotalStock + 1}

\* InventoryService.setStock(value)
SetStock(value) ==
    /\ CanStart
    /\ stock' = NumberToString(value)
    /\ calls' = CutResets(
            Added(calls,
                [NewCall("setStock") EXCEPT !.result = Result("ok", "none", Nil, value)]),
            stock' # stock)
    /\ UNCHANGED <<purchases, initialized, clock>>

\* ------------------------------------------------- FlashSaleService.reset
\* The value resetStock writes to the stock key.
ResetStockValue == NumberToString(TotalStock)

\* A faulty clearPurchases that leaves the hash in place.
ClearedPurchasesKept(hash) == hash

\* The purchases key after clearPurchases (DEL).
ClearedPurchases(hash) == EmptyHash

\* reset, first half: InventoryService.resetStock (SET), then the flag.
ResetStock ==
    /\ CanStart
    /\ stock' = ResetStockValue
    /\ initialized' = TRUE
    /\ calls' = Added(calls, [NewCall("reset") EXCEPT !.pc = "clearPurchases"])
    /\ UNCHANGED <<purchases, clock>>

\* reset, second half: PurchaseService.clearPurchases (DEL); reset returns.
ClearPurchases(r) ==
    /\ r.op = "reset"
    /\ r.pc = "clearPurchases"
    /\ purchases' = ClearedPurchases(purchases)
    /\ LET returned == Replaced(calls, r,
                [r EXCEPT !.pc = "done", !.result = Result("ok", "none", Nil, 0)])
       IN calls' = Mapped([c \in BagToSet(returned) |-> ClearCommitted(c)], returned)
    /\ UNCHANGED <<stock, initialized, clock>>

\* ------------------------------------------ PurchaseService.recordPurchase
\* The user ids recordPurchase is called with: the field it contends for
\* with attemptPurchase.
RecordUserIds == { <<"a">> }

\* Up to the suspension on redis.hsetnx: now is taken.
RecordPurchase(userId) ==
    /\ CanStart
    /\ calls' = Added(calls,
            [NewCall("recordPurchase") EXCEPT !.pc = "hsetnx",
                !.userId = userId, !.now = clock])
    /\ UNCHANGED <<stock, purchases, initialized, clock>>

\* The store runs HSETNX; on 1 the call returns success with now.
RecordHsetnx(r) ==
    /\ r.op = "recordPurchase"
    /\ r.pc = "hsetnx"
    /\ LET s == HSetNX(purchases, r.userId, ToISOString(r.now)) IN
       /\ purchases' = s.hash
       /\ calls' = Replaced(calls, r,
            IF s.result = 1
            THEN [r EXCEPT !.pc = "done", !.now = 0,
                    !.result = Result("ok", "none", ToISOString(r.now), 0)]
            ELSE [r EXCEPT !.pc = "hget"])
    /\ UNCHANGED <<stock, initialized, clock>>

\* The store runs HGET; the call returns failure with the stored time, or
\* with now if the field is gone.
RecordHget(r) ==
    /\ r.op = "recordPurchase"
    /\ r.pc = "hget"
    /\ LET existingTime == HGet(purchases, r.userId) IN
       calls' = Replaced(calls, r,
            [r EXCEPT !.pc = "done", !.now = 0,
                !.result = Result("failed", "none",
                    IF existingTime # Nil
                    THEN ToISOString(ParseDate(existingTime))
                    ELSE ToISOString(r.now), 0)])
    /\ UNCHANGED <<stock, purchases, initialized, clock>>

\* ------------------------------------------------------ the store client
\* getRedisClient: maxRetriesPerRequest
MaxRetriesPerRequest == 3

\* The connection drops while the reply of the call's EVAL is outstanding
\* and is re-established (retryStrategy): the client sends the unfulfilled
\* command again, with the arguments of the first send.
ResendCommand(r) ==
    /\ r.op = "attemptPurchase"
    /\ r.pc = "reply"
    /\ r.runs <= MaxRetriesPerRequest
    /\ calls' = Replaced(calls, r, [r EXCEPT !.pc = "eval"])
    /\ UNCHANGED <<stock, purchases, initialized, clock>>

\* The connection drops and the command is given up (the retries are used
\* up, or retryStrategy returns null): redis.eval rejects and
\* attemptPurchase throws.
CommandFails(r) ==
    /\ r.op = "attemptPurchase"
    /\ r.pc \in {"eval", "reply"}
    /\ calls' = Replaced(calls, r,
            [r EXCEPT !.pc = "done", !.now = 0,
                !.result = Result("error", "connection", Nil, 0),
                !.reply = [NoReply EXCEPT !.status = r.reply.status]])
    /\ UNCHANGED <<stock, purchases, initialized, clock>>

\* The store is started anew without its data (a Redis container with no
\* persistence): both keys are gone, the process keeps running.
StoreRestart ==
    /\ Quiescent
    /\ StockExists(stock)
    /\ stock' = Nil
    /\ purchases' = EmptyHash
    /\ calls' = Mapped([c \in BagToSet(calls) |-> ClearCommitted(c)], calls)
    /\ UNCHANGED <<initialized, clock>>

\* ------------------------------- FlashSaleService.getUserPurchaseStatus
\* One read of the ledger; the call keeps the id as it was passed.
GetUserPurchaseStatus(userId) ==
    /\ CanStart
    /\ calls' = Added(calls,
            [NewCall("getUserStatus") EXCEPT !.userId = userId,
                !.result = GetUserStatus(purchases, userId)])
    /\ UNCHANGED <<stock, purchases, initialized, clock>>

\* ----------------------------------------------- InventoryService.getStock
\* A faulty getStock without the default for an absent key.
GetStockValueNoDefault(stockKey) ==
    IF stockKey # Nil THEN ToNumber(stockKey) ELSE -1

\* stock ? parseInt(stock, 10) : 0, on the reply of GET
GetStockValue(stockKey) ==
    IF stockKey # Nil THEN ToNumber(stockKey) ELSE 0

\* InventoryService.getStock: one GET; the result is the number returned.
GetStock ==
    /\ CanStart
    /\ calls' = Added(calls,
            [NewCall("getStock") EXCEPT !.result =
                Result("ok", "none", Nil, GetStockValue(stock))])
    /\ UNCHANGED <<stock, purchases, initialized, clock>>

\* -------------------------------------------------- saleController.purchase
\* Faulty variants of the controller: already_purchased and out_of_stock
\* fall through to the default; the catch is missing, so that a thrown error
\* reaches errorHandler, which answers 503 to a connection error.
PurchaseHttpStatusNoConflict(result) ==
    CASE result.reason = "error" -> 500
      [] result.reason = "success" -> 200
      [] result.reason = "invalid_user_id" -> 400
      [] result.reason = "sale_not_active" -> 403
      [] OTHER -> 400

PurchaseHttpStatusNoCatch(result) ==
    CASE result.reason = "error" /\ result.message = "connection" -> 503
      [] result.reason = "error" -> 500
      [] result.reason = "success" -> 200
      [] result.reason = "invalid_user_id" -> 400
      [] result.reason = "sale_not_active" -> 403
      [] result.reason \in {"already_purchased", "out_of_stock"} -> 409
      [] OTHER -> 400

\* The HTTP status saleController.purchase answers with, given what
\* attemptPurchase returned or threw: the catch, result.success, the switch
\* on result.reason.  A user id the controller rejects itself (!userId) is
\* answered as the service's invalid_user_id is.
PurchaseHttpStatus(result) ==
    CASE result.reason = "error" -> 500
      [] result.reason = "success" -> 200
      [] result.reason = "invalid_user_id" -> 400
      [] result.reason = "sale_not_active" -> 403
      [] result.reason \in {"already_purchased", "out_of_stock"} -> 409
      [] OTHER -> 400

\* The status codes of a purchase script other than ATOMIC_PURCHASE_SCRIPT.
UnknownStatusCodes == {3}

\* The reply to the call's EVAL carries a status code the process does not
\* know (redis.eval's result is cast, not checked).
UnknownStatus(r, code) ==
    /\ r.op = "attemptPurchase"
    /\ r.pc = "eval"
    /\ calls' = Replaced(calls, r,
            [r EXCEPT !.pc = "reply", !.runs = r.runs + 1,
                !.reply = [NoReply EXCEPT !.status = code]])
    /\ UNCHANGED <<stock, purchases, initialized, clock>>

\* ------------------------------------------------------ getConfig, start
\* The values of TOTAL_STOCK a process is configured with, and whether
\* SALE_START_TIME and SALE_END_TIME parse (new Date(s) is a valid Date).
ConfigStocks == {-1, 0, TotalStock}
ConfigTimes == {"valid", "invalid"}

\* start() of a new process configured by getConfig with totalStock and
\* with times that parse or not: initialize sends INIT_STOCK_SCRIPT with
\* totalStock.toString(), the server listens, and the banner's
\* startTime.toISOString() throws on an invalid Date, upon which the catch
\* exits the process.  getConfig checks neither value.
Start(totalStock, times) ==
    /\ CanStart
    /\ ~initialized
    /\ LET s == InitStockScript(stock, NumberToString(totalStock)) IN
       /\ stock' = s.stock
       /\ initialized' = (times = "valid")
       /\ calls' = Added(calls,
            [NewCall("start") EXCEPT !.result =
                Result(IF times = "valid" THEN "listening" ELSE "exited",
                       times, Nil, totalStock)])
    /\ UNCHANGED <<purchases, clock>>

\* ------------------------------- the purchase script, one write at a time
\* A faulty order of the script's writes: the HSET comes first.
ScriptFirstWriteIsInsert(stockKey, hash, userId, timestamp) ==
    [stock |-> stockKey, purchases |-> HSet(hash, userId, timestamp)]

\* The two writes of ATOMIC_PURCHASE_SCRIPT in their order: DECR, then HSET.
ScriptFirstWrite(stockKey, hash, userId, timestamp) ==
    [stock |-> Decr(stockKey), purchases |-> hash]

ScriptSecondWrite(stockKey, hash, userId, timestamp) ==
    [stock |-> stockKey, purchases |-> HSet(hash, userId, timestamp)]

\* The store runs one script at a time.
SlotFree == \A r \in Pending : r.pc # "hset"

\* The script for the call r runs up to and including its first write; a
\* refusal ends it with the reply.
ScriptDecrement(r) ==
    /\ r.op = "attemptPurchase"
    /\ r.pc = "eval"
    /\ SlotFree
    /\ LET s == AtomicPurchaseScript(stock, purchases, r.userId, ToISOString(r.now))
           w == ScriptFirstWrite(stock, purchases, r.userId, ToISOString(r.now))
           reply == [status |-> s.status, remaining |-> s.remaining,
                     existing |-> s.existing]
       IN IF s.status = 1
          THEN /\ stock' = w.stock
               /\ purchases' = w.purchases
               /\ calls' = Replaced(calls, r,
                    [r EXCEPT !.pc = "hset", !.reply = reply, !.runs = r.runs + 1])
          ELSE /\ stock' = stock
               /\ purchases' = purchases
               /\ calls' = Replaced(calls, r,
                    [r EXCEPT !.pc = "reply", !.reply = reply, !.runs = r.runs + 1])
    /\ UNCHANGED <<initialized, clock>>

\* The script's second write; the script ends with the reply {1, remaining}.
ScriptRecord(r) ==
    /\ r.op = "attemptPurchase"
    /\ r.pc = "hset"
    /\ LET w == ScriptSecondWrite(stock, purchases, r.userId, ToISOString(r.now))
       IN /\ stock' = w.stock
          /\ purchases' = w.purchases
          /\ calls' = Replaced(calls, r, [r EXCEPT !.pc = "reply", !.committed = TRUE])
    /\ UNCHANGED <<initialized, clock>>

\* The store stops between the two writes and comes back with the data as
\* it stood: the call's command is rejected.
StoreStops(r) ==
    /\ r.op = "attemptPurchase"
    /\ r.pc = "hset"
    /\ calls' = Replaced(calls, r,
            [r EXCEPT !.pc = "done", !.now = 0,
                !.result = Result("error", "connection", Nil, 0),
                !.reply = [NoReply EXCEPT !.status = r.reply.status]])
    /\ UNCHANGED <<stock, purchases, initialized, clock>>

\* -------------------------------------------- getRedisClient.retryStrategy
\* A faulty retryStrategy that never gives up.
RetryStrategyNoLimit(times) ==
    [stop |-> FALSE, delay |-> IF times * 200 < 2000 THEN times * 200 ELSE 2000]

\* retryStrategy(times): null (stop) ends the retries, a number is the
\* delay in ms before the next attempt to connect.
RetryStrategy(times) ==
    IF times > 3 THEN [stop |-> TRUE, delay |-> 0]
    ELSE [stop |-> FALSE, delay |-> IF times * 200 < 2000 THEN times * 200 ELSE 2000]

IsConnect(r) == r.op = "connect"

\* The connection to the store is lost: the client starts to reconnect.
\* runs counts the retries made, result.remaining is the delay before the
\* latest.  A client that has given up does not connect again.
ConnectionLost ==
    /\ CanStart
    /\ \A r \in Pending : IsConnect(r) => r.pc = "done" /\ r.result.reason = "connected"
    /\ calls' = Added(calls, [NewCall("connect") EXCEPT !.pc = "retry"])
    /\ UNCHANGED <<stock, purchases, initialized, clock>>

\* The connection closes again (or for the first time): the client asks
\* retryStrategy with the number of the retry to come, and waits the delay
\* and retries, or gives up.
RetryFails(r) ==
    /\ IsConnect(r)
    /\ r.pc = "retry"
    /\ LET answer == RetryStrategy(r.runs + 1) IN
       calls' = Replaced(calls, r,
            IF answer.stop
            THEN [r EXCEPT !.pc = "done",
                    !.result = Result("gave_up", "none", Nil, r.result.remaining)]
            ELSE [r EXCEPT !.runs = r.runs + 1,
                    !.result = Result("none", "none", Nil, answer.delay)])
    /\ UNCHANGED <<stock, purchases, initialized, clock>>

\* The retry connects.
RetrySucceeds(r) ==
    /\ IsConnect(r)
    /\ r.pc = "retry"
    /\ r.runs > 0
    /\ calls' = Replaced(calls, r,
            [r EXCEPT !.pc = "done",
                !.result = Result("connected", "none", Nil, r.result.remaining)])
    /\ UNCHANGED <<stock, purchases, initialized, clock>>

\* ------------------------------------------ FlashSaleService.getFullStatus
\* Up to the suspension on the GET of inventoryService.getStock.
GetFullStatus ==
    /\ CanStart
    /\ calls' = Added(calls, [NewCall("getStatus") EXCEPT !.pc = "get"])
    /\ UNCHANGED <<stock, purchases, initialized, clock>>

\* The store runs the GET; getStock makes its number of the reply.
StatusGet(r) ==
    /\ r.op = "getStatus"
    /\ r.pc = "get"
    /\ calls' = Replaced(calls, r,
            [r EXCEPT !.pc = "reply",
                !.reply = [NoReply EXCEPT !.status = 1,
                                          !.remaining = GetStockValue(stock)]])
    /\ UNCHANGED <<stock, purchases, initialized, clock>>

\* The reply reaches the process: getSaleStatus is taken now and the
\* response is built; reason holds the sale status, remaining the
\* remainingStock.
StatusReturn(r) ==
    /\ r.op = "getStatus"
    /\ r.pc = "reply"
    /\ calls' = Replaced(calls, r,
            [r EXCEPT !.pc = "done", !.reply = NoReply,
                !.result = Result(GetSaleStatus(clock), "none", Nil,
                                  r.reply.remaining)])
    /\ UNCHANGED <<stock, purchases, initialized, clock>>

\* --------------------------------------------------------- specifications
NextPurchase ==
    \/ Tick
    \/ \E userId \in RawUserIds : AttemptPurchase(userId)
    \/ \E r \in Pending : PurchaseScript(r)
    \/ \E r \in Pending : AttemptReturn(r)

\* Concurrent attemptPurchase calls on an initialized sale.
SpecPurchase == InitSale /\ [][NextPurchase]_vars

\* Concurrent attemptPurchase calls on a sale with totalStock = 0.
SpecZeroStock == InitZeroStock /\ [][NextPurchase]_vars

NextStatus ==
    \/ NextPurchase
    \/ \E userId \in RawUserIds : GetUserPurchaseStatus(userId)

\* attemptPurchase and getUserStatus calls on an initialized sale.
SpecStatus == InitSale /\ [][NextStatus]_vars

NextRecovery ==
    \/ NextStatus
    \/ ResetStock
    \/ \E r \in Pending : ClearPurchases(r)
    \/ \E r \in Pending : CommandFails(r)

\* attemptPurchase, getUserStatus and reset calls, with calls that fail
\* without a response.
SpecRecovery == InitSale /\ [][NextRecovery]_vars

NextClient ==
    \/ NextPurchase
    \/ \E r \in Pending : ResendCommand(r)
    \/ \E r \in Pending : CommandFails(r)

\* attemptPurchase calls over a connection to the store that can drop.
SpecClient == InitSale /\ [][NextClient]_vars

NextSale ==
    \/ NextPurchase
    \/ Restart
    \/ Initialize
    \/ ResetStock
    \/ \E r \in Pending : ClearPurchases(r)

\* The sale coordinator's calls: initialize, attemptPurchase and reset.
SpecSale == Init /\ [][NextSale]_vars

NextStore ==
    \/ NextSale
    \/ StoreRestart

\* The sale coordinator's calls on a store that can lose its data.
SpecStore == Init /\ [][NextStore]_vars

NextCore ==
    \/ NextSale
    \/ DecrementStock
    \/ \E userId \in RecordUserIds : RecordPurchase(userId)
    \/ \E r \in Pending : RecordHsetnx(r)
    \/ \E r \in Pending : RecordHget(r)

\* With the inventory module's decrementStock and the ledger's recordPurchase.
SpecCore == Init /\ [][NextCore]_vars

Next ==
    \/ NextCore
    \/ \E value \in SetStockValues : SetStock(value)

\* All the calls that write to the store.
Spec == Init /\ [][Next]_vars

NextInventory ==
    \/ Restart
    \/ Initialize
    \/ DecrementStock
    \/ GetStock

\* The inventory module alone: initialize, decrementStock and getStock.
SpecInventory == Init /\ [][NextInventory]_vars

NextFailure ==
    \/ NextPurchase
    \/ \E r \in Pending : CommandFails(r)
    \/ \E r \in Pending : \E code \in UnknownStatusCodes : UnknownStatus(r, code)

\* attemptPurchase calls whose command can fail or be answered with an
\* unknown status code.
SpecFailure == InitSale /\ [][NextFailure]_vars

NextStartup ==
    \/ \E totalStock \in ConfigStocks : \E times \in ConfigTimes :
          Start(totalStock, times)
    \/ Restart
    \/ StoreRestart
    \/ GetStock
    \/ DecrementStock

\* Processes started with any configuration, on a store that can lose its
\* data, and the inventory's reads and decrements.
SpecStartup == InitFresh /\ [][NextStartup]_vars

NextCrash ==
    \/ Tick
    \/ \E userId \in RawUserIds : AttemptPurchase(userId)
    \/ \E r \in Pending : ScriptDecrement(r)
    \/ \E r \in Pending : ScriptRecord(r)
    \/ \E r \in Pending : StoreStops(r)
    \/ \E r \in Pending : AttemptReturn(r)

\* attemptPurchase calls on a store that can stop between the two writes
\* of the purchase script.
SpecCrash == InitSale /\ [][NextCrash]_vars

NextConnection ==
    \/ Tick
    \/ ConnectionLost
    \/ \E r \in Pending : RetryFails(r)
    \/ \E r \in Pending : RetrySucceeds(r)

\* The client's connection to the store, lost and retried.
SpecConnection == InitSale /\ [][NextConnection]_vars

NextReads ==
    \/ NextStatus
    \/ Initialize
    \/ GetFullStatus
    \/ \E r \in Pending : StatusGet(r)
    \/ \E r \in Pending : StatusReturn(r)

\* The two reading calls, getStatus and getUserStatus, among
\* attemptPurchase and initialize calls.
SpecReads == Init /\ [][NextReads]_vars

\* attemptPurchase calls whose command can be given up.
NextLive ==
    \/ Tick
    \/ \E userId \in RawUserIds :
          BagCardinality(calls) < LiveCalls /\ AttemptPurchase(userId)
    \/ \E r \in Pending : PurchaseScript(r)
    \/ \E r \in Pending : AttemptReturn(r)
    \/ \E r \in Pending : CommandFails(r)

\* The store answers every script it is sent and every reply reaches the
\* process, unless the command is given up.
SpecLive ==
    /\ InitSale
    /\ [][NextLive]_vars
    /\ WF_vars(\E r \in Pending : PurchaseScript(r))
    /\ WF_vars(\E r \in Pending : AttemptReturn(r))

\* ------------------------------------------------------------- properties
IsAttempt(r) == r.op = "attemptPurchase"
ReturnedSuccess(r) == IsAttempt(r) /\ r.pc = "done" /\ r.result.reason = "success"
NumReturnedSuccess(B) == SumCopies({ c \in BagToSet(B) : ReturnedSuccess(c) }, B)
ReturnedOutOfStock(r) == IsAttempt(r) /\ r.pc = "done" /\ r.result.reason = "out_of_stock"
NumReturnedOutOfStock(B) == SumCopies({ c \in BagToSet(B) : ReturnedOutOfStock(c) }, B)
ReturnedAlreadyPurchased(r) ==
    IsAttempt(r) /\ r.pc = "done" /\ r.result.reason = "already_purchased"

\* The call's purchase script was sent to the store and the call returned.
ReturnedFromStore(r) ==
    /\ IsAttempt(r) /\ r.pc = "done"
    /\ r.result.reason \in {"success", "already_purchased", "out_of_stock", "error"}

Counter == ToNumber(stock)
LedgerSize == Cardinality(DOMAIN purchases)

\* C1 (no overselling): on an initialized sale, under any interleaving of
\* attemptPurchase calls, the number of calls that have returned success
\* never exceeds totalStock.
C1_NoOverselling == NumReturnedSuccess(calls) <= TotalStock

\* C1's case: the whole stock has been sold and a further call was refused.
C1_Witness ==
    /\ NumReturnedSuccess(calls) = TotalStock
    /\ NumReturnedOutOfStock(calls) > 0

\* C2: between any two operations of the store counter + |ledger| <=
\* totalStock, and the two are equal whenever no commit is in flight.
C2_StockPlusLedger ==
    /\ StockExists(stock)
    /\ Counter + LedgerSize <= TotalStock
    /\ (\A r \in Pending : r.pc # "eval") => Counter + LedgerSize = TotalStock

\* C2's case: a purchase has committed while another commit is in flight.
C2_Witness ==
    /\ LedgerSize > 0
    /\ \E r \in Pending : r.pc = "eval"
    /\ \E r \in Pending : r.pc = "reply" /\ r.reply.status = 1

\* At most one attemptPurchase has returned success for each user id.
OneSuccessPerUser ==
    \A u \in UserIds :
        LET SuccessOfUser(r) == ReturnedSuccess(r) /\ r.userId = u
        IN SumCopies({ c \in BagToSet(calls) : SuccessOfUser(c) }, calls) <= 1

\* C3 as stated: at most one success per normalized user id, and every call
\* made for the user after that success has returned ends already_purchased
\* with the purchasedAt of the first success.
C3_AsStated ==
    /\ OneSuccessPerUser
    /\ \A r \in Pending :
          (r.pc = "done" /\ r.prior # Nil) =>
             /\ r.result.reason = "already_purchased"
             /\ r.result.purchasedAt = r.prior

\* C3 as amended: at most one success per normalized user id; a call made
\* for the user after that success has returned ends already_purchased if it
\* passes the window gate (sale_not_active, ended, otherwise), its response
\* carries no purchasedAt, and the timestamp the script returns with status
\* 0 is the purchasedAt of the first success.
C3_Uniqueness ==
    /\ OneSuccessPerUser
    /\ \A r \in Pending :
          r.prior # Nil =>
             /\ r.pc = "reply" =>
                  /\ r.reply.status = 0
                  /\ r.reply.existing = r.prior
             /\ r.pc = "done" =>
                  /\ r.result.reason \in {"already_purchased", "sale_not_active"}
                  /\ r.result.reason = "sale_not_active" => r.result.message = "ended"
                  /\ r.result.purchasedAt = Nil

\* C3's case: a second call of a user whose success has returned was
\* answered already_purchased.
C3_Witness ==
    \E r \in Pending :
        /\ ReturnedAlreadyPurchased(r)
        /\ r.prior # Nil
        /\ \E f \in Pending :
              /\ ReturnedSuccess(f)
              /\ f.userId = r.userId
              /\ f.result.purchasedAt = r.prior

\* All NumCalls calls of the run are attemptPurchase calls with pairwise
\* distinct normalized user ids that passed the window gate, and all have
\* returned.
AllDistinctReturned ==
    /\ BagCardinality(calls) = NumCalls
    /\ \A r \in Pending : ReturnedFromStore(r) /\ CopiesIn(r, calls) = 1
    /\ \A r, q \in Pending : r.userId = q.userId => r = q

\* C4 (concurrent contention): when N > totalStock calls with pairwise
\* distinct user ids run on a full counter and an empty ledger in an active
\* window, exactly totalStock return success, the other N - totalStock
\* return out_of_stock, and the counter ends at 0.
C4_Contention ==
    (NumCalls > TotalStock /\ AllDistinctReturned) =>
        /\ NumReturnedSuccess(calls) = TotalStock
        /\ NumReturnedOutOfStock(calls) = NumCalls - TotalStock
        /\ Counter = 0

\* C4's case: more calls than stock, all with distinct ids, have returned.
C4_Witness == NumCalls > TotalStock /\ AllDistinctReturned

\* A success returned for a purchase that committed since the ledger was
\* last cleared.
SuccessSinceReset(r) == ReturnedSuccess(r) /\ ~r.mark
NumSuccessSinceReset(B) == SumCopies({ c \in BagToSet(B) : SuccessSinceReset(c) }, B)

\* C5 as stated (conservation at quiescence): whenever no call is in flight,
\* totalStock - remainingStock = |ledger| = the number of success responses
\* since the latest reset, for any interleaving of initialize,
\* attemptPurchase and reset.
C5_ConservationAtQuiescence ==
    (Quiescent /\ StockExists(stock)) =>
        /\ TotalStock - Counter = LedgerSize
        /\ LedgerSize = NumSuccessSinceReset(calls)

\* C6 (counter bounds): once the counter key exists, 0 <= counter <=
\* totalStock in every state, for any interleaving of attemptPurchase,
\* decrementStock, initialize and reset.
C6_CounterBounds ==
    StockExists(stock) => (0 <= Counter /\ Counter <= TotalStock)

\* C6's case: a purchase and a decrementStock have taken the counter to 0
\* and a further decrementStock was refused there.
C6_Witness ==
    /\ StockExists(stock) /\ Counter = 0
    /\ \E r \in Pending : /\ r.op = "decrementStock"
                          /\ r.result.reason = "failed"
                          /\ r.result.remaining = 0
    /\ \E r \in Pending : IsAttempt(r) /\ r.reply.status = 1

\* What a step does to the two keys, and whose step it is.
CounterDecremented ==
    /\ StockExists(stock) /\ StockExists(stock')
    /\ ToNumber(stock') = ToNumber(stock) - 1

KeyInserted == DOMAIN purchases' \ DOMAIN purchases # {}

AtReply(r) == IsAttempt(r) /\ r.pc = "reply"
NumAtReply(B) == SumCopies({ c \in BagToSet(B) : AtReply(c) }, B)
IsDecrementStock(r) == r.op = "decrementStock"
NumIsDecrementStock(B) == SumCopies({ c \in BagToSet(B) : IsDecrementStock(c) }, B)
IsSetStock(r) == r.op = "setStock"
NumIsSetStock(B) == SumCopies({ c \in BagToSet(B) : IsSetStock(c) }, B)
IsInitialize(r) == r.op = "initialize"
NumIsInitialize(B) == SumCopies({ c \in BagToSet(B) : IsInitialize(c) }, B)
AtHsetnx(r) == r.op = "recordPurchase" /\ r.pc = "hsetnx"
NumAtHsetnx(B) == SumCopies({ c \in BagToSet(B) : AtHsetnx(c) }, B)
AtClearPurchases(r) == r.op = "reset" /\ r.pc = "clearPurchases"
NumAtClearPurchases(B) == SumCopies({ c \in BagToSet(B) : AtClearPurchases(c) }, B)
ResetReturned(r) == r.op = "reset" /\ r.pc = "done"
NumResetReturned(B) == SumCopies({ c \in BagToSet(B) : ResetReturned(c) }, B)
CleanResetReturned(r) == ResetReturned(r) /\ ~r.mark
NumCleanResetReturned(B) == SumCopies({ c \in BagToSet(B) : CleanResetReturned(c) }, B)

PurchaseScriptStep ==
    NumAtReply(calls') = NumAtReply(calls) + 1

DecrementStockStep ==
    NumIsDecrementStock(calls') = NumIsDecrementStock(calls) + 1

SetStockStep ==
    NumIsSetStock(calls') = NumIsSetStock(calls) + 1

InitializeStep ==
    NumIsInitialize(calls') = NumIsInitialize(calls) + 1

ResetStockStep ==
    NumAtClearPurchases(calls') = NumAtClearPurchases(calls) + 1

PlainWriteStep == SetStockStep \/ ResetStockStep

RecordHsetnxStep ==
    NumAtHsetnx(calls') = NumAtHsetnx(calls) - 1

ClearPurchasesStep ==
    NumResetReturned(calls') = NumResetReturned(calls) + 1

CleanResetReturns ==
    NumCleanResetReturned(calls') = NumCleanResetReturned(calls) + 1

\* C7 as stated (conservation per step): in every transition the counter
\* decreases by exactly one iff a new key is inserted into the ledger.
C7_AsStated == [][CounterDecremented <=> KeyInserted]_vars

\* C7 as amended: a step that lowers the counter by exactly one is a step
\* of the atomic purchase script, of decrementStock or of a plain write
\* (setStock, resetStock), never of recordPurchase; a step that inserts a
\* new ledger key is a step of the script or of recordPurchase, never of
\* decrementStock or a plain write; and a step of the script does both or
\* neither.
C7_Conservation ==
    [][ /\ CounterDecremented =>
              /\ PurchaseScriptStep \/ DecrementStockStep \/ PlainWriteStep
              /\ ~RecordHsetnxStep
        /\ KeyInserted =>
              /\ PurchaseScriptStep \/ RecordHsetnxStep
              /\ ~(DecrementStockStep \/ PlainWriteStep)
        /\ (CounterDecremented # KeyInserted) => ~PurchaseScriptStep ]_vars

\* C7's case: a purchase has committed, a decrementStock has decremented
\* and a recordPurchase has inserted.
C7_Witness ==
    /\ \E r \in Pending : IsAttempt(r) /\ r.reply.status = 1
    /\ \E r \in Pending : r.op = "decrementStock" /\ r.result.reason = "ok"
    /\ \E r \in Pending : r.op = "recordPurchase" /\ r.result.reason = "ok"

\* C8 (ledger monotonicity): in every step other than a reset's
\* clearPurchases, every key of the ledger stays and keeps its timestamp,
\* for any interleaving of attemptPurchase and recordPurchase.
C8_LedgerMonotone ==
    [][ \/ \A u \in DOMAIN purchases :
              u \in DOMAIN purchases' /\ purchases'[u] = purchases[u]
        \/ ClearPurchasesStep ]_vars

\* C8's case: a user has an entry older than the clock, the script has
\* refused a later attemptPurchase of that user and a later recordPurchase
\* for that user has failed.
C8_Witness ==
    \E u \in DOMAIN purchases :
        /\ ParseDate(purchases[u]) < clock
        /\ \E r \in Pending : /\ AtReply(r)
                              /\ r.userId = u
                              /\ r.now > ParseDate(purchases[u])
                              /\ r.reply.status = 0
                              /\ r.reply.existing = purchases[u]
        /\ \E r \in Pending : /\ r.op = "recordPurchase"
                              /\ r.userId = u
                              /\ r.result.reason = "failed"
                              /\ r.result.purchasedAt = purchases[u]

C10_InitializeIdempotent ==
    [][ InitializeStep =>
             /\ StockExists(stock) => stock' = stock
             /\ purchases' = purchases
             /\ StockExists(stock') =>
                  InitStockScript(stock', NumberToString(TotalStock)).stock = stock' ]_vars

\* C10's case: after a restart an initialize has run the init script on a
\* counter that purchases had lowered, and an initialize of the same
\* process has followed it.
C10_Witness ==
    /\ \E r \in Pending : ReturnedSuccess(r)
    /\ \E r \in Pending : /\ IsInitialize(r)
                          /\ r.result.message = "script_0"
                          /\ r.result.remaining >= 0
                          /\ r.result.remaining < TotalStock
    /\ \E r \in Pending : /\ IsInitialize(r)
                          /\ r.result.message = "flag_set"
                          /\ r.result.remaining >= 0
                          /\ r.result.remaining < TotalStock

\* The call that a step has put at pc "reply": the one whose script ran.
NewlyReplied(c) == AtReply(c) /\ CopiesIn(c, calls') > CopiesIn(c, calls)

\* C14 (window boundaries are inclusive): the derived state is upcoming iff
\* now < startTime, active iff startTime <= now <= endTime, so also at
\* now = startTime and at now = endTime, and ended iff now > endTime; a call
\* reaches the store only with a now inside the window.
C14_WindowBoundaries ==
    /\ GetSaleStatus(clock) = "upcoming" <=> clock < StartTime
    /\ GetSaleStatus(clock) = "active" <=> (StartTime <= clock /\ clock <= EndTime)
    /\ GetSaleStatus(clock) = "ended" <=> clock > EndTime
    /\ GetSaleStatus(StartTime) = "active"
    /\ GetSaleStatus(EndTime) = "active"
    /\ \A r \in Pending :
          (IsAttempt(r) /\ r.pc = "eval") => (StartTime <= r.now /\ r.now <= EndTime)

\* C14's case: one call passed the gate at startTime, one at endTime, and
\* one was refused as ended after endTime.
C14_Witness ==
    /\ clock > EndTime
    /\ \E r \in Pending : IsAttempt(r) /\ r.pc = "eval" /\ r.now = StartTime
    /\ \E r \in Pending : IsAttempt(r) /\ r.pc = "eval" /\ r.now = EndTime
    /\ \E r \in Pending : /\ IsAttempt(r) /\ r.pc = "done"
                          /\ r.result.reason = "sale_not_active"
                          /\ r.result.message = "ended"

\* C16: on a sale with totalStock = 0 every attemptPurchase that reaches
\* the store in the active window gets status 2 and returns out_of_stock,
\* the counter stays 0 and no ledger entry is ever created.
C16_ZeroStock ==
    /\ purchases = EmptyHash
    /\ Counter = 0
    /\ \A r \in Pending :
          IsAttempt(r) =>
             /\ ~r.committed
             /\ r.pc = "reply" => r.reply.status = 2
             /\ (r.pc = "done" /\ r.runs > 0) => r.result.reason = "out_of_stock"

\* C16's case: calls of two users have returned out_of_stock from the store.
C16_Witness ==
    \E r, q \in Pending :
        /\ ReturnedOutOfStock(r) /\ ReturnedOutOfStock(q)
        /\ r.runs = 1 /\ q.runs = 1
        /\ r.userId # q.userId

\* C20 as stated: the timestamp a commit stores is the instant of the
\* commit, and it is not older than any timestamp already in the ledger.
C20_AsStated ==
    [][ (PurchaseScriptStep /\ KeyInserted) =>
            \A u \in DOMAIN purchases' \ DOMAIN purchases :
                /\ purchases'[u] = ToISOString(clock)
                /\ \A v \in DOMAIN purchases :
                      ParseDate(purchases[v]) <= ParseDate(purchases'[u]) ]_vars

\* C20 as amended: the timestamp a commit stores for a user is the now the
\* calling process took before it sent the script, which is not later than
\* the instant of the commit.
C20_TimestampIsCallersNow ==
    [][ PurchaseScriptStep =>
            \A c \in BagToSet(calls') :
                (NewlyReplied(c) /\ c.reply.status = 1) =>
                    /\ c.userId \notin DOMAIN purchases
                    /\ c.userId \in DOMAIN purchases'
                    /\ purchases'[c.userId] = ToISOString(c.now)
                    /\ c.now <= clock ]_vars

\* C20's case: a purchase has committed while a call that took an earlier
\* now has not yet run its script.
C20_Witness ==
    \E r, q \in Pending :
        /\ AtReply(r) /\ r.reply.status = 1
        /\ purchases[r.userId] = ToISOString(r.now)
        /\ IsAttempt(q) /\ q.pc = "eval"
        /\ q.now < r.now

\* The raw user ids that are empty, whitespace-only or absent, and the rest.
BlankUserIds == { << >>, <<" ">>, Undefined }
ValidRawUserIds == RawUserIds \ BlankUserIds

\* The call a step has started.
Started(c) == CopiesIn(c, calls') > CopiesIn(c, calls)

\* The call returned without a command sent to the store.
ReturnedWithoutStore(c) ==
    /\ IsAttempt(c) /\ c.pc = "done"
    /\ c.runs = 0 /\ c.reply = NoReply /\ ~c.committed

\* C13 (window gate): an attemptPurchase with a valid user id made at an
\* instant before startTime or after endTime returns sale_not_active, with
\* the upcoming message before startTime and the ended message after
\* endTime, sends nothing to the store and leaves the counter and the
\* ledger unchanged.
C13_WindowGate ==
    [][ \A raw \in ValidRawUserIds :
            (AttemptPurchase(raw) /\ (clock < StartTime \/ clock > EndTime)) =>
                /\ stock' = stock
                /\ purchases' = purchases
                /\ \A c \in BagToSet(calls') :
                      Started(c) =>
                         /\ ReturnedWithoutStore(c)
                         /\ c.result.reason = "sale_not_active"
                         /\ c.result.message =
                               IF clock < StartTime THEN "upcoming" ELSE "ended" ]_vars

\* C13's case: a call was refused before the window, a purchase succeeded
\* inside it and a call was refused after it.
C13_Witness ==
    /\ \E r \in Pending : /\ ReturnedWithoutStore(r)
                          /\ r.result.reason = "sale_not_active"
                          /\ r.result.message = "upcoming"
    /\ \E r \in Pending : ReturnedSuccess(r)
    /\ \E r \in Pending : /\ ReturnedWithoutStore(r)
                          /\ r.result.reason = "sale_not_active"
                          /\ r.result.message = "ended"

\* C15 (validation comes first): an attemptPurchase with an empty,
\* whitespace-only or absent user id returns invalid_user_id in every sale
\* state and for every stock, sends nothing to the store and leaves the
\* counter and the ledger unchanged.
C15_ValidationFirst ==
    [][ \A raw \in BlankUserIds :
            AttemptPurchase(raw) =>
                /\ stock' = stock
                /\ purchases' = purchases
                /\ \A c \in BagToSet(calls') :
                      Started(c) =>
                         /\ ReturnedWithoutStore(c)
                         /\ c.result.reason = "invalid_user_id" ]_vars

\* C15's case: two calls with an invalid id have returned invalid_user_id
\* in a run whose window has closed with the stock sold down.
C15_Witness ==
    /\ clock > EndTime
    /\ StockExists(stock) /\ Counter < TotalStock
    /\ \E r \in Pending :
          /\ ReturnedWithoutStore(r)
          /\ r.result.reason = "invalid_user_id"
          /\ CopiesIn(r, calls) = 2

\* Two raw ids are equal after trimming and lower-casing.
SameUser(raw1, raw2) == ToLowerCase(Trim(raw1)) = ToLowerCase(Trim(raw2))

\* The purchasedAt of a success returned to an attemptPurchase of the raw
\* id's user: the set is empty if none has returned.
SucceededAt(raw) ==
    { r.result.purchasedAt :
        r \in { c \in Pending : ReturnedSuccess(c) /\ c.userId = ToLowerCase(Trim(raw)) } }

IsGetUserStatus(r) == r.op = "getUserStatus"

\* C12 (normalization): once an attemptPurchase with a raw id has returned
\* success, an attemptPurchase with any raw id equal to it after trimming
\* and lower-casing is a call of the same user: the script answers it with
\* status 0 and changes neither the counter nor the ledger, and it returns
\* already_purchased; and a getUserStatus with any such raw id reports
\* hasPurchased = true with the purchasedAt of that success.
C12_Normalization ==
    [][ /\ \A raw1, raw2 \in ValidRawUserIds :
              (SameUser(raw1, raw2) /\ SucceededAt(raw1) # {}) =>
                 /\ (AttemptPurchase(raw2) /\ StartTime <= clock /\ clock <= EndTime) =>
                       \A c \in BagToSet(calls') :
                           Started(c) => (c.pc = "eval" /\ c.prior \in SucceededAt(raw1))
                 /\ GetUserPurchaseStatus(raw2) =>
                       \A c \in BagToSet(calls') :
                           Started(c) => /\ c.result.reason = "purchased"
                                         /\ c.result.purchasedAt \in SucceededAt(raw1)
        /\ PurchaseScriptStep =>
              \A c \in BagToSet(calls') :
                  (NewlyReplied(c) /\ c.prior # Nil) =>
                     /\ c.reply.status = 0
                     /\ stock' = stock
                     /\ purchases' = purchases
        /\ \A r \in Pending :
              (IsAttempt(r) /\ r.pc = "done" /\ r.prior # Nil /\ r.runs > 0) =>
                 r.result.reason = "already_purchased" ]_vars

\* C12's case: a user has bought, a later attemptPurchase of the same user
\* has returned already_purchased, and a getUserStatus with a raw id that
\* differs from the ledger key has reported the purchase.
C12_Witness ==
    \E r, q, g \in Pending :
        /\ ReturnedSuccess(r)
        /\ ReturnedAlreadyPurchased(q) /\ q.userId = r.userId
        /\ q.prior = r.result.purchasedAt
        /\ IsGetUserStatus(g)
        /\ g.userId # r.userId /\ SameUser(g.userId, r.userId)
        /\ g.result.reason = "purchased"
        /\ g.result.purchasedAt = r.result.purchasedAt
        /\ Counter = TotalStock - 1

\* A purchase script of the raw id's user has committed and no reset has
\* cleared its entry since.
Committed(raw) ==
    \E r \in Pending :
        /\ IsAttempt(r) /\ r.committed /\ ~r.mark
        /\ r.userId = ToLowerCase(Trim(raw))

C18_AtMostOnce ==
    \A r \in Pending :
        IsAttempt(r) =>
           /\ r.runs <= 1
           /\ (r.committed /\ r.pc = "done") => r.result.reason # "already_purchased"

\* The user ids to which an attemptPurchase has returned success, ever and
\* since the ledger was last cleared.
SuccessUsersEver == { r.userId : r \in { c \in Pending : ReturnedSuccess(c) } }
SuccessUsers == { r.userId : r \in { c \in Pending : SuccessSinceReset(c) } }

\* A commit whose response has not yet returned.
CommitInFlight(r) == AtReply(r) /\ r.committed /\ ~r.mark

IsRecordPurchase(r) == r.op = "recordPurchase"

C11_InitializeSetsWhenAbsent ==
    [][ (InitializeStep /\ ~StockExists(stock)) =>
            stock' = NumberToString(TotalStock) ]_vars

\* A step in which the purchase script commits for the call c: c is newly
\* at its reply with status 1.
CommitsFor(c) == NewlyReplied(c) /\ c.reply.status = 1

\* C28 (commit follows the window check): a step that decrements the
\* counter or inserts a ledger key is a commit of the purchase script for an
\* attemptPurchase whose window check read an instant within [startTime,
\* endTime], no later than the commit; an attemptPurchase made after endTime
\* sends nothing to the store even if stock remains; so a commit that takes
\* effect after endTime is of a call whose check passed at or before endTime.
C28_CommitFollowsWindowCheck ==
    [][ /\ (CounterDecremented \/ KeyInserted) =>
              \E c \in BagToSet(calls') :
                  /\ CommitsFor(c)
                  /\ StartTime <= c.now /\ c.now <= EndTime
                  /\ c.now <= clock
        /\ \A raw \in RawUserIds :
              (AttemptPurchase(raw) /\ clock > EndTime) =>
                  /\ \A c \in BagToSet(calls') : Started(c) => c.pc = "done"
                  /\ \A c \in BagToSet(calls') : Started(c) => c.reply = NoReply
        /\ \A c \in BagToSet(calls') :
              (CommitsFor(c) /\ clock > EndTime) => c.now <= EndTime ]_vars

\* C28's case: after endTime, with stock remaining, a call whose check
\* passed inside the window has committed and has its reply outstanding,
\* and a call made after endTime was refused as ended.
C28_Witness ==
    /\ clock > EndTime
    /\ Counter > 0
    /\ \E r \in Pending : /\ AtReply(r)
                          /\ r.reply.status = 1
                          /\ r.now <= EndTime
    /\ \E r \in Pending : /\ ReturnedWithoutStore(r)
                          /\ r.result.reason = "sale_not_active"
                          /\ r.result.message = "ended"

\* The calls for which the purchase script has committed.
HasCommitted(r) == IsAttempt(r) /\ r.committed
NumHasCommitted(B) == SumCopies({ c \in BagToSet(B) : HasCommitted(c) }, B)

\* The call's reply is outstanding and carries status 1.
CommitReplied(r) == AtReply(r) /\ r.reply.status = 1

\* C29 (commit order): within one sale without a reset, the k-th commit of
\* the purchase script reads the pre-decrement value totalStock - k + 1 and
\* returns remaining = totalStock - k, so the remaining values of the
\* commits are totalStock - 1, totalStock - 2, ... in commit order and no
\* two outstanding replies of commits carry the same value.
C29_CommitOrder ==
    [][ /\ \A c \in BagToSet(calls') :
              CommitsFor(c) =>
                  /\ Counter = TotalStock - NumHasCommitted(calls)
                  /\ c.reply.remaining = Counter - 1
                  /\ c.reply.remaining = TotalStock - NumHasCommitted(calls')
                  /\ NumHasCommitted(calls') = NumHasCommitted(calls) + 1
        /\ \A r, q \in BagToSet(calls') :
              (CommitReplied(r) /\ CommitReplied(q)
                  /\ r.reply.remaining = q.reply.remaining) =>
                      r = q /\ CopiesIn(r, calls') = 1 ]_vars

\* C29's case: the whole stock was sold by commits whose replies are
\* outstanding together, the first with remaining = totalStock - 1 and the
\* last with remaining = 0.
C29_Witness ==
    /\ TotalStock >= 2
    /\ NumHasCommitted(calls) = TotalStock
    /\ \E r \in Pending : CommitReplied(r) /\ r.reply.remaining = TotalStock - 1
    /\ \E r \in Pending : CommitReplied(r) /\ r.reply.remaining = 0

\* The attemptPurchase calls for the user u whose script was sent to the
\* store, those of them that have returned, and their outcomes.
SentFor(u, r) == IsAttempt(r) /\ r.userId = u /\ (r.pc # "done" \/ r.runs > 0)
NumSentFor(u, B) == SumCopies({ c \in BagToSet(B) : SentFor(u, c) }, B)
NumSuccessFor(u, B) ==
    SumCopies({ c \in BagToSet(B) : ReturnedSuccess(c) /\ c.userId = u }, B)
NumAlreadyPurchasedFor(u, B) ==
    SumCopies({ c \in BagToSet(B) : ReturnedAlreadyPurchased(c) /\ c.userId = u }, B)

\* The calls sent to the store are N >= 2 calls for the one user u, made
\* on the full counter and the empty ledger, and all have returned.
RaceReturned(u) ==
    /\ NumSentFor(u, calls) >= 2
    /\ \A r \in Pending : SentFor(u, r) => r.pc = "done"
    /\ \A r \in Pending : (IsAttempt(r) /\ r.userId # u) => r.runs = 0 /\ r.pc = "done"

\* C30 (same-user race): when N >= 2 attemptPurchase calls whose ids
\* normalize to the same user run in an active window on a counter >= 1
\* with no ledger entry for the user, under any interleaving exactly one
\* returns success, the other N - 1 return already_purchased and the
\* counter has decreased by exactly one.
C30_SameUserRace ==
    \A u \in UserIds :
        RaceReturned(u) =>
            /\ NumSuccessFor(u, calls) = 1
            /\ NumAlreadyPurchasedFor(u, calls) = NumSentFor(u, calls) - 1
            /\ Counter = TotalStock - 1
            /\ DOMAIN purchases = {u}

\* C30's case: NumCalls calls for one user have all returned, none of them
\* made after the success had returned.
C30_Witness ==
    \E u \in UserIds :
        /\ RaceReturned(u)
        /\ NumSentFor(u, calls) = NumCalls
        /\ \A r \in Pending : r.prior = Nil

DecrementOk(r) == IsDecrementStock(r) /\ r.result.reason = "ok"
NumDecrementOk(B) == SumCopies({ c \in BagToSet(B) : DecrementOk(c) }, B)

\* C25 (decrementStock): a call on a counter > 0 decrements it by one and
\* returns success with the new value; on a counter of 0 it returns
\* failure with 0 and on an absent counter failure with -1, the store left
\* as it was; under any interleaving of decrementStock calls the counter
\* never drops below 0 and the successes number totalStock - counter.
C25_DecrementStock ==
    /\ [](StockExists(stock) =>
              /\ Counter >= 0
              /\ NumDecrementOk(calls) = TotalStock - Counter)
    /\ [](~StockExists(stock) => NumDecrementOk(calls) = 0)
    /\ [][ DecrementStockStep =>
             /\ purchases' = purchases
             /\ \A c \in BagToSet(calls') :
                   Started(c) =>
                      IF StockExists(stock) /\ Counter > 0
                      THEN /\ c.result.reason = "ok"
                           /\ StockExists(stock')
                           /\ ToNumber(stock') = Counter - 1
                           /\ c.result.remaining = Counter - 1
                      ELSE IF StockExists(stock) /\ Counter = 0
                      THEN /\ c.result.reason = "failed"
                           /\ c.result.remaining = 0
                           /\ stock' = stock
                      ELSE /\ ~StockExists(stock)
                           /\ c.result.reason = "failed"
                           /\ c.result.remaining = -1
                           /\ stock' = stock ]_vars

\* C25's case on a fresh store: one call found the counter absent, the
\* counter was then initialized, a call decremented it and returned the new
\* value.
C25_WitnessAbsent ==
    /\ \E r \in Pending : /\ IsDecrementStock(r)
                          /\ r.result.reason = "failed"
                          /\ r.result.remaining = -1
    /\ \E r \in Pending : DecrementOk(r) /\ r.result.remaining = TotalStock - 1
    /\ StockExists(stock) /\ Counter = TotalStock - 1

\* C25's case: the calls have taken the counter down to 0, each returning
\* the value it left, and a further call was refused with 0.
C25_Witness ==
    /\ NumDecrementOk(calls) = TotalStock
    /\ \E r \in Pending : /\ IsDecrementStock(r)
                          /\ r.result.reason = "failed"
                          /\ r.result.remaining = 0

IsGetStock(r) == r.op = "getStock"
NumIsGetStock(B) == SumCopies({ c \in BagToSet(B) : IsGetStock(c) }, B)
GetStockStep == NumIsGetStock(calls') = NumIsGetStock(calls) + 1

\* C27 (getStock): getStock returns the integer stored at the counter key
\* when it reads it and 0 when the key is absent, and changes neither the
\* counter nor the ledger.
C27_GetStock ==
    [][ GetStockStep =>
          /\ stock' = stock
          /\ purchases' = purchases
          /\ \A c \in BagToSet(calls') :
                Started(c) =>
                   /\ IsGetStock(c) /\ c.pc = "done"
                   /\ StockExists(stock) => c.result.remaining = ToNumber(stock)
                   /\ ~StockExists(stock) => c.result.remaining = 0 ]_vars

\* C27's case: a getStock found the key absent and returned 0, an
\* initialize then set the counter, and a second getStock returned
\* totalStock.
C27_Witness ==
    /\ TotalStock > 0
    /\ \E r \in Pending : IsGetStock(r) /\ r.result.remaining = 0
    /\ \E r \in Pending : IsInitialize(r) /\ r.result.message = "script_1"
    /\ \E r \in Pending : IsGetStock(r) /\ r.result.remaining = TotalStock
    /\ stock = NumberToString(TotalStock)

\* C26 as stated (recordPurchase): a recordPurchase(u) that finds no entry
\* for u stores its timestamp and returns success with it; one that finds
\* an entry leaves the ledger as it is and returns failure with the
\* timestamp stored for u, also when attemptPurchase, recordPurchase and
\* reset calls interleave with it.
C26_RecordPurchase ==
    [][ \A r \in Pending :
          /\ RecordHsetnx(r) =>
                IF r.userId \notin DOMAIN purchases
                THEN /\ purchases' = HSet(purchases, r.userId, ToISOString(r.now))
                     /\ \A c \in BagToSet(calls') :
                           Started(c) =>
                              /\ c.pc = "done"
                              /\ c.result.reason = "ok"
                              /\ c.result.purchasedAt = ToISOString(r.now)
                ELSE /\ purchases' = purchases
                     /\ \A c \in BagToSet(calls') : Started(c) => c.pc = "hget"
          /\ RecordHget(r) =>
                /\ purchases' = purchases
                /\ r.userId \in DOMAIN purchases
                /\ \A c \in BagToSet(calls') :
                      Started(c) =>
                         /\ c.result.reason = "failed"
                         /\ c.result.purchasedAt = purchases[r.userId] ]_vars

\* The status code of the reply the call's result was made from.
RepliedStatus(r) == r.reply.status

\* C21 (status-code mapping): attemptPurchase maps the script's status
\* code 0 to already_purchased, 1 to success and 2 to out_of_stock; on any
\* other status code it throws instead of returning one of the five
\* outcomes, and the purchase request is answered with HTTP 500.
C21_StatusCodeMapping ==
    \A r \in Pending :
        (IsAttempt(r) /\ r.pc = "done" /\ r.runs > 0
            /\ r.result.message # "connection") =>
            /\ RepliedStatus(r) = 0 => r.result.reason = "already_purchased"
            /\ RepliedStatus(r) = 1 => r.result.reason = "success"
            /\ RepliedStatus(r) = 2 => r.result.reason = "out_of_stock"
            /\ RepliedStatus(r) \notin {0, 1, 2} =>
                  /\ r.result.reason = "error"
                  /\ r.result.message = "unexpected_status"
                  /\ PurchaseHttpStatus(r.result) = 500

\* C21's case: one call was answered with status 1 and returned success,
\* one with status 0 and returned already_purchased, and one with an
\* unknown status code and threw.
C21_Witness ==
    /\ \E r \in Pending : ReturnedSuccess(r) /\ RepliedStatus(r) = 1
    /\ \E r \in Pending : ReturnedAlreadyPurchased(r) /\ RepliedStatus(r) = 0
    /\ \E r \in Pending : /\ IsAttempt(r) /\ r.pc = "done"
                          /\ RepliedStatus(r) \in UnknownStatusCodes
                          /\ r.result.reason = "error"

\* The HTTP status the specification gives for each outcome variant.
StatusOfVariant ==
    [v \in {"success", "invalid_user_id", "sale_not_active",
            "already_purchased", "out_of_stock"} |->
        CASE v = "success" -> 200
          [] v = "invalid_user_id" -> 400
          [] v = "sale_not_active" -> 403
          [] OTHER -> 409]

ReturnedVariant(r) ==
    IsAttempt(r) /\ r.pc = "done" /\ r.result.reason \in DOMAIN StatusOfVariant

\* C22 (HTTP mapping): the status of a purchase response is 200 for
\* success, 400 for invalid_user_id, 403 for sale_not_active and 409 for
\* already_purchased and for out_of_stock, whatever the counter, the
\* ledger, the clock and the other calls are.
C22_HttpMapping ==
    \A r \in Pending :
        ReturnedVariant(r) =>
            PurchaseHttpStatus(r.result) = StatusOfVariant[r.result.reason]

\* C22's case: calls have returned success, already_purchased and
\* sale_not_active.
C22_Witness ==
    /\ \E r \in Pending : ReturnedSuccess(r)
    /\ \E r \in Pending : ReturnedAlreadyPurchased(r)
    /\ \E r \in Pending : /\ ReturnedVariant(r)
                          /\ r.result.reason = "sale_not_active"

\* C22's other case: the stock is sold out, a call has returned
\* out_of_stock.
C22_WitnessOutOfStock ==
    /\ \E r \in Pending : ReturnedOutOfStock(r)
    /\ \E r \in Pending : ReturnedSuccess(r)

\* The connection to the store failed under the call.
ConnectionFailed(r) ==
    /\ IsAttempt(r) /\ r.pc = "done"
    /\ r.result.reason = "error" /\ r.result.message = "connection"

IsStart(r) == r.op = "start"

\* C24 as stated (configuration is checked at startup): no process listens
\* with a startTime or endTime that does not parse or with totalStock < 0,
\* and the counter is never initialized to a negative value.
C24_ConfigurationChecked ==
    /\ \A r \in Pending :
          (IsStart(r) /\ r.result.reason = "listening") =>
              /\ r.result.message = "valid"
              /\ r.result.remaining >= 0
    /\ StockExists(stock) => Counter >= 0

\* The outcome attemptPurchase makes of a script status code.
ReasonOfStatus(status) ==
    CASE status = 0 -> "already_purchased"
      [] status = 1 -> "success"
      [] status = 2 -> "out_of_stock"
      [] OTHER -> "error"

\* C31 (duplicate check first): the script answers a user who has a ledger
\* entry with status 0 also when the counter is 0 or absent, and a user
\* without an entry with status 2 exactly when the counter is absent or
\* <= 0; attemptPurchase returns already_purchased for the first and
\* out_of_stock for the second.
C31_DuplicateCheckFirst ==
    [][ \A c \in BagToSet(calls') :
          /\ (PurchaseScriptStep /\ NewlyReplied(c)) =>
                /\ c.userId \in DOMAIN purchases =>
                      /\ c.reply.status = 0
                      /\ c.reply.existing = purchases[c.userId]
                /\ c.userId \notin DOMAIN purchases =>
                      (c.reply.status = 2 <=>
                          (~StockExists(stock) \/ Counter <= 0))
          /\ (Started(c) /\ IsAttempt(c) /\ c.pc = "done" /\ c.runs > 0) =>
                c.result.reason = ReasonOfStatus(c.reply.status) ]_vars

\* C31's case: on a store without the counter key, a user with a ledger
\* entry was returned already_purchased and a user without one
\* out_of_stock.
C31_Witness ==
    /\ ~StockExists(stock)
    /\ \E r \in Pending : ReturnedAlreadyPurchased(r) /\ r.userId \in DOMAIN purchases
    /\ \E r \in Pending : ReturnedOutOfStock(r) /\ r.userId \notin DOMAIN purchases

\* C32 (refusals write nothing): a run of the purchase script that answers
\* 0 or 2 leaves the counter and the ledger as they were, an absent counter
\* key stays absent, and the return of the call as already_purchased or
\* out_of_stock changes neither.
C32_RefusalsWriteNothing ==
    [][ \A c \in BagToSet(calls') :
          /\ (PurchaseScriptStep /\ NewlyReplied(c) /\ c.reply.status \in {0, 2}) =>
                /\ stock' = stock
                /\ purchases' = purchases
                /\ ~c.committed
          /\ (Started(c) /\ (ReturnedAlreadyPurchased(c) \/ ReturnedOutOfStock(c))) =>
                /\ stock' = stock
                /\ purchases' = purchases ]_vars

\* C32's case: on a store without the counter key the script has answered
\* one call with 2 and another, of a user with a ledger entry, with 0, and
\* the key is still absent.
C32_Witness ==
    /\ ~StockExists(stock)
    /\ \E r \in Pending : AtReply(r) /\ r.reply.status = 2
    /\ \E r \in Pending : AtReply(r) /\ r.reply.status = 0
                            /\ r.reply.existing = purchases[r.userId]

\* The script for the call stands between its two writes; the store
\* stopped there.
BetweenWrites(r) == IsAttempt(r) /\ r.pc = "hset"
NumBetweenWrites(B) == SumCopies({ c \in BagToSet(B) : BetweenWrites(c) }, B)
StoppedBetweenWrites(r) ==
    /\ IsAttempt(r) /\ r.pc = "done" /\ r.result.reason = "error"
    /\ r.reply.status = 1 /\ ~r.committed
NumStoppedBetweenWrites(B) ==
    SumCopies({ c \in BagToSet(B) : StoppedBetweenWrites(c) }, B)

\* C33 (the decrement precedes the insert): in every state, the one between
\* the script's two writes and those a stop of the store there leaves
\* included, totalStock - counter >= |ledger|; the ledger is short of
\* totalStock - counter by one entry for each script standing or stopped
\* between its writes, and by at most totalStock entries.
C33_CounterIsLowWater ==
    /\ StockExists(stock)
    /\ Counter >= 0
    /\ TotalStock - Counter >= LedgerSize
    /\ (TotalStock - Counter) - LedgerSize =
          NumBetweenWrites(calls) + NumStoppedBetweenWrites(calls)
    /\ (TotalStock - Counter) - LedgerSize <= TotalStock

\* C33's case: the store has stopped between the writes of one script, a
\* second script stands between its writes, and the ledger is empty on a
\* counter of totalStock - 2.
C33_Witness ==
    /\ NumStoppedBetweenWrites(calls) = 1
    /\ NumBetweenWrites(calls) = 1
    /\ LedgerSize = 0
    /\ Counter = TotalStock - 2

\* 200 * 2^(n - 1)
RECURSIVE ExponentialDelay(_)
ExponentialDelay(n) == IF n <= 1 THEN 200 ELSE 2 * ExponentialDelay(n - 1)

\* C34 as stated: the connection is retried at most 3 times, the delay
\* before retry n is 200 * 2^(n - 1) ms (200, 400, 800) and never exceeds
\* 2 s, and the client gives up after the third failed retry.
C34_AsStated ==
    \A r \in Pending :
        IsConnect(r) =>
            /\ r.runs <= 3
            /\ r.runs >= 1 => r.result.remaining = ExponentialDelay(r.runs)
            /\ r.result.remaining <= 2000
            /\ r.result.reason = "gave_up" => r.runs = 3

\* C34 as amended: the connection is retried at most 3 times, the delay
\* before retry n is n * 200 ms (200, 400, 600), below the cap of 2 s,
\* and the client gives up when the third retry fails and not before.
C34_BoundedRetries ==
    \A r \in Pending :
        IsConnect(r) =>
            /\ r.runs <= 3
            /\ r.runs >= 1 => r.result.remaining = r.runs * 200
            /\ r.result.remaining <= 2000
            /\ r.result.reason = "gave_up" => r.runs = 3
            /\ (r.pc = "retry" /\ r.runs < 3) => ~RetryStrategy(r.runs + 1).stop
            /\ (r.pc = "retry" /\ r.runs = 3) => RetryStrategy(r.runs + 1).stop

\* C34's case: one loss of the connection was repaired by the second retry,
\* after a delay of 400 ms, and after a later loss the client gave up
\* having made three retries, the last after 600 ms.
C34_Witness ==
    /\ \E r \in Pending : /\ IsConnect(r) /\ r.result.reason = "connected"
                          /\ r.runs = 2 /\ r.result.remaining = 400
    /\ \E r \in Pending : /\ IsConnect(r) /\ r.result.reason = "gave_up"
                          /\ r.runs = 3 /\ r.result.remaining = 600

SoldOut == StockExists(stock) /\ Counter = 0

\* C36 as stated (sold-out is permanent): once the counter is 0, every
\* attemptPurchase made for a user ends out_of_stock if the user has no
\* ledger entry and already_purchased if the user has one, and none ends
\* success, until a reset or a setStock raises the counter.
C36_AsStated ==
    [][ \A raw \in ValidRawUserIds :
          (SoldOut /\ AttemptPurchase(raw)) =>
              \A c \in BagToSet(calls') :
                  (Started(c) /\ c.pc = "done") =>
                      c.result.reason \in {"out_of_stock", "already_purchased"} ]_vars

\* C36 as amended: while the counter is 0 no purchase commits: a script
\* that runs then answers 2 to a user without a ledger entry and 0 to a
\* user with one and writes nothing, so the call returns out_of_stock or
\* already_purchased; the counter leaves 0 only by a reset's or a
\* setStock's write.  An attemptPurchase made while the counter is 0 does
\* not reach the script if its id is invalid or the window is not active,
\* and a success returned while the counter is 0 is of a commit made
\* before.
C36_SoldOutIsPermanent ==
    [][ SoldOut =>
          /\ stock' # stock => (PlainWriteStep /\ ToNumber(stock') > 0)
          /\ ~(CounterDecremented /\ KeyInserted)
          /\ \A c \in BagToSet(calls') :
                /\ (PurchaseScriptStep /\ NewlyReplied(c)) =>
                      /\ c.reply.status =
                            IF c.userId \in DOMAIN purchases THEN 0 ELSE 2
                      /\ purchases' = purchases
                /\ (Started(c) /\ IsAttempt(c) /\ c.pc = "done") =>
                      \/ c.result.reason \in {"invalid_user_id", "sale_not_active"}
                            /\ c.runs = 0
                      \/ c.result.reason = ReasonOfStatus(c.reply.status)
                            /\ c.runs > 0
                            /\ c.result.reason = "success" => c.committed ]_vars

\* C36's case: the whole stock is sold, the counter is 0, and the script
\* has answered 2 to a further call.
C36_Witness ==
    /\ SoldOut
    /\ LedgerSize = TotalStock
    /\ \E r \in Pending : AtReply(r) /\ r.reply.status = 2
                            /\ r.userId \notin DOMAIN purchases

\* The order of the sale states.
StatusRank(status) ==
    CASE status = "upcoming" -> 0
      [] status = "active" -> 1
      [] OTHER -> 2

\* An attemptPurchase was refused as ended.
RefusedAsEnded(r) ==
    /\ IsAttempt(r) /\ r.pc = "done"
    /\ r.result.reason = "sale_not_active" /\ r.result.message = "ended"

\* C37 (the sale state only moves forward): getSaleStatus is computed from
\* the clock at each call; as the clock does not go back, its result never
\* returns to an earlier state of upcoming -> active -> ended; an
\* attemptPurchase made once one has been refused as ended is refused as
\* ended too or as invalid, and reaches no script.
C37_StatusMovesForward ==
    /\ StartTime <= EndTime
    /\ [][ /\ clock' >= clock
           /\ StatusRank(GetSaleStatus(clock')) >= StatusRank(GetSaleStatus(clock))
           /\ (\E r \in Pending : RefusedAsEnded(r)) =>
                 /\ GetSaleStatus(clock) = "ended"
                 /\ \A c \in BagToSet(calls') :
                       (Started(c) /\ IsAttempt(c) /\ c.runs = 0) =>
                           /\ c.pc = "done"
                           /\ c.result.reason \in {"invalid_user_id", "sale_not_active"}
                           /\ c.result.reason = "sale_not_active" =>
                                 c.result.message = "ended" ]_vars

\* C37's case: calls were refused as upcoming and as ended and one passed
\* the gate in between.
C37_Witness ==
    /\ \E r \in Pending : /\ ReturnedWithoutStore(r)
                          /\ r.result.reason = "sale_not_active"
                          /\ r.result.message = "upcoming"
    /\ \E r \in Pending : IsAttempt(r) /\ r.runs > 0
    /\ \E r \in Pending : RefusedAsEnded(r)
    /\ GetSaleStatus(clock) = "ended"

IsGetStatus(r) == r.op = "getStatus"
NumIsGetStatus(B) == SumCopies({ c \in BagToSet(B) : IsGetStatus(c) }, B)
NumIsGetUserStatus(B) == SumCopies({ c \in BagToSet(B) : IsGetUserStatus(c) }, B)

\* A step of a getStatus or of a getUserStatus call: one is made, or one
\* moves on.
ReadingStep ==
    \/ NumIsGetStatus(calls') > NumIsGetStatus(calls)
    \/ NumIsGetUserStatus(calls') > NumIsGetUserStatus(calls)
    \/ \E c \in BagToSet(calls') : IsGetStatus(c) /\ Started(c)

\* C38 (the reads are read-only): no step of a getStatus or getUserStatus
\* call changes the counter or the ledger, whatever calls interleave; the
\* remainingStock of a getStatus response is the value the counter held at
\* the call's GET, an instant between the call and its return, and 0 if
\* the key was absent then.
C38_ReadsAreReadOnly ==
    [][ ReadingStep =>
          /\ stock' = stock
          /\ purchases' = purchases
          /\ \A c \in BagToSet(calls') :
                (IsGetStatus(c) /\ Started(c)) =>
                    /\ c.pc = "reply" =>
                          c.reply.remaining =
                              IF StockExists(stock) THEN Counter ELSE 0
                    /\ c.pc = "done" =>
                          \E r \in Pending :
                              /\ IsGetStatus(r) /\ r.pc = "reply"
                              /\ c.result.remaining = r.reply.remaining
                              /\ c.result.reason = GetSaleStatus(clock) ]_vars

\* C38's case: a getStatus has reported the value the counter held before
\* a purchase committed, and a getUserStatus has reported that purchase.
C38_Witness ==
    /\ \E r \in Pending : /\ IsGetStatus(r) /\ r.pc = "done"
                          /\ StockExists(stock)
                          /\ r.result.remaining = Counter + 1
    /\ \E r \in Pending : IsGetUserStatus(r) /\ r.result.reason = "purchased"

\* C38's other case: a getStatus found the counter key absent and reported
\* 0.
C38_WitnessAbsent ==
    /\ ~StockExists(stock)
    /\ \E r \in Pending : IsGetStatus(r) /\ r.pc = "done" /\ r.result.remaining = 0

\* The ways an attemptPurchase ends.
Outcomes ==
    {"success", "invalid_user_id", "sale_not_active", "already_purchased",
     "out_of_stock", "error"}

\* C39 (termination): every attemptPurchase ends, with exactly one of
\* success, invalid_user_id, sale_not_active, already_purchased,
\* out_of_stock or a thrown error, provided the store answers the script or
\* the command is given up; a call in flight holds nothing that another
\* call waits for: a script sent can run and a reply can be taken up
\* whatever the other calls are doing, and a new call can be made.
C39_Terminates ==
    /\ ~Quiescent ~> Quiescent
    /\ [](\A r \in Pending :
            /\ r.pc = "done" => r.result.reason \in Outcomes
            /\ r.pc # "done" => r.result = NoResult
            /\ r.pc = "eval" => ENABLED PurchaseScript(r)
            /\ r.pc = "reply" => ENABLED AttemptReturn(r))
    /\ [](BagCardinality(calls) < LiveCalls
            => ENABLED (\E userId \in RawUserIds : AttemptPurchase(userId)))

\* C39's case: LiveCalls calls were in flight together and have all ended,
\* one with a success and one, made before that success returned, refused
\* by the script as already_purchased.
C39_Witness ==
    /\ Quiescent
    /\ BagCardinality(calls) = LiveCalls
    /\ \E r \in Pending : ReturnedSuccess(r)
    /\ \E r \in Pending : ReturnedAlreadyPurchased(r) /\ r.prior = Nil

====
